---- MODULE Spec2Model ----
(* A model of the mutating admission webhook of webhook.go: the policy      *)
(* (admissionRequired, mutationRequired), the patch builder (updateAnnotation, *)
(* createPatch), the mutation step (mutate) and the HTTP handler (serve).    *)
EXTENDS Naturals, Sequences, FiniteSets, TLC

(***************************************************************************)
(* Program constants.                                                      *)
(***************************************************************************)
syncAnnotationKey == "kubed.appscode.com/sync"
originAnnotationKey == "kubed.appscode.com/origin"
certManagerAnnotationKey == "cert-manager.io/certificate-name"
ignoredNamespaces == <<"kube-system", "kube-public">>

StatusOK == 200
StatusBadRequest == 400
StatusUnsupportedMediaType == 415
StatusInternalServerError == 500

(***************************************************************************)
(* Bounds of the model.                                                    *)
(***************************************************************************)
\* the largest number of annotations a submitted Secret carries
MaxAnn == 3
\* the largest number of keys of a desired-annotation set given to the builder
MaxDesired == 2

(***************************************************************************)
(* Go values.  A map[string]string is a record: isNil tells the nil map,   *)
(* kv is the finite function of its entries.                               *)
(***************************************************************************)
NilMap == [isNil |-> TRUE, kv |-> <<>>]
MakeMap(f) == [isNil |-> FALSE, kv |-> f]
EmptyMap == MakeMap(<<>>)
\* the comma-ok form  _, ok := m[k]
HasKey(m, k) == (~m.isNil) /\ k \in DOMAIN m.kv
\* m[k]: the zero value "" for a missing key and for the nil map
Lookup(m, k) == IF HasKey(m, k) THEN m.kv[k] ELSE ""

AnnKeys == {syncAnnotationKey, originAnnotationKey, certManagerAnnotationKey, "team"}
AnnVals == {"", "true", "old"}
Namespaces == {"kube-system", "kube-public", "default", "cert-manager"}

KeySets(n) == {S \in SUBSET AnnKeys : Cardinality(S) <= n}
Maps(n) == {NilMap} \cup {MakeMap(f) : f \in UNION {[S -> AnnVals] : S \in KeySets(n)}}

\* metav1.ObjectMeta of the decoded object, as far as the webhook reads it
Metas == [Namespace : Namespaces, Labels : {NilMap, MakeMap([app |-> "web"])},
          Annotations : Maps(MaxAnn)]

(***************************************************************************)
(* Policy evaluator.                                                       *)
(***************************************************************************)
admissionRequired(ignoredList, metadata) ==
    ~ \E i \in 1..Len(ignoredList) : metadata.Namespace = ignoredList[i]

\* faulty variant: the origin marker is not looked at
mutationRequired_noOrigin(ignoredList, metadata) ==
    admissionRequired(ignoredList, metadata)

mutationRequired(ignoredList, metadata) ==
    LET required == admissionRequired(ignoredList, metadata)
        annotations == IF metadata.Annotations.isNil THEN EmptyMap
                       ELSE metadata.Annotations
    IN  IF required /\ HasKey(annotations, certManagerAnnotationKey)
        THEN IF HasKey(annotations, originAnnotationKey) THEN FALSE ELSE TRUE
        ELSE required

(***************************************************************************)
(* Patch builder.  A patchOperation's Value is an interface{}: here a      *)
(* tagged value holding either a map[string]string or a string.            *)
(***************************************************************************)
ObjectValue(f) == [t |-> "object", obj |-> f, str |-> ""]
StringValue(s) == [t |-> "string", obj |-> <<>>, str |-> s]
AnnotationsPath == "/metadata/annotations"

AddOp(key, value) ==
    [Op |-> "add", Path |-> AnnotationsPath,
     Value |-> ObjectValue([k \in {key} |-> value])]
ReplaceOp(key, value) ==
    [Op |-> "replace", Path |-> AnnotationsPath \o "/" \o key,
     Value |-> StringValue(value)]

\* the loop body of updateAnnotation for one key: the operation appended and
\* the value target holds afterwards (line 122 reassigns it on the add branch)
UpdateStep(target, key, value) ==
    IF target.isNil \/ Lookup(target, key) = ""
    THEN [target |-> EmptyMap, op |-> AddOp(key, value)]
    ELSE [target |-> target, op |-> ReplaceOp(key, value)]

\* range over a Go map visits the keys in an unspecified order: order is
\* the sequence of keys of one visit
RECURSIVE UpdateLoop(_, _, _, _)
UpdateLoop(target, added, order, patch) ==
    IF order = <<>> THEN patch
    ELSE LET s == UpdateStep(target, Head(order), added.kv[Head(order)])
         IN  UpdateLoop(s.target, added, Tail(order), Append(patch, s.op))

updateAnnotation(target, added, order) == UpdateLoop(target, added, order, <<>>)

\* the orders in which range may visit the keys of m
Orders(m) ==
    IF m.isNil THEN {<<>>}
    ELSE {o \in [1..Cardinality(DOMAIN m.kv) -> DOMAIN m.kv] :
            \A i, j \in DOMAIN o : i # j => o[i] # o[j]}

\* json.Marshal of a []patchOperation: a nil slice is the JSON null, any
\* other the array of its operations
JSONNull == [t |-> "null", ops |-> <<>>]
JSONArray(ops) == [t |-> "array", ops |-> ops]
NoBytes == [t |-> "none", ops |-> <<>>]
MarshalPatch(patch) == IF patch = <<>> THEN JSONNull ELSE JSONArray(patch)

createPatch(availableAnnotations, annotations, order, marshalErr) ==
    LET patch == updateAnnotation(availableAnnotations, annotations, order)
    IN  IF marshalErr THEN [bytes |-> NoBytes, err |-> TRUE]
        ELSE [bytes |-> MarshalPatch(patch), err |-> FALSE]

(***************************************************************************)
(* The review protocol.  An AdmissionResponse pointer is a record; isNil   *)
(* tells the nil pointer.  Patch is the []byte of the response (NoBytes:   *)
(* nil), hasResult tells a non-nil Result, Message is Result.Message.      *)
(***************************************************************************)
NilResponse ==
    [isNil |-> TRUE, UID |-> "", Allowed |-> FALSE, hasResult |-> FALSE,
     Message |-> "", Patch |-> NoBytes, PatchType |-> ""]

\* faulty variant: a failure reported with the allowed flag set
ErrorResponse_allowed(msg) ==
    [isNil |-> FALSE, UID |-> "", Allowed |-> TRUE, hasResult |-> TRUE,
     Message |-> msg, Patch |-> NoBytes, PatchType |-> ""]

\* &v1beta1.AdmissionResponse{Result: &metav1.Status{Message: err.Error()}}
ErrorResponse(msg) ==
    [isNil |-> FALSE, UID |-> "", Allowed |-> FALSE, hasResult |-> TRUE,
     Message |-> msg, Patch |-> NoBytes, PatchType |-> ""]

\* &v1beta1.AdmissionResponse{Allowed: true}
SkipResponse ==
    [isNil |-> FALSE, UID |-> "", Allowed |-> TRUE, hasResult |-> FALSE,
     Message |-> "", Patch |-> NoBytes, PatchType |-> ""]

\* &v1beta1.AdmissionResponse{Allowed: true, Patch: patchBytes, PatchType: &pt}
PatchResponse(patchBytes) ==
    [isNil |-> FALSE, UID |-> "", Allowed |-> TRUE, hasResult |-> FALSE,
     Message |-> "", Patch |-> patchBytes, PatchType |-> "JSONPatch"]

\* the zero v1beta1.AdmissionReview on the request side: no Request
NoMeta == [Namespace |-> "default", Labels |-> NilMap, Annotations |-> NilMap]
NoObject == [kind |-> "absent", meta |-> NoMeta]
ZeroReview == [hasRequest |-> FALSE, UID |-> "", Object |-> NoObject]

\* what mutate hands back: whether it panicked, the response, the calls it
\* made and the policy's decision
MutateResult(panic, resp, calls, decision) ==
    [panic |-> panic, resp |-> resp, calls |-> calls, decision |-> decision]

mutate(ar, order, patchMarshalErr) ==
    IF ~ar.hasRequest
    THEN \* req is nil: req.Kind at line 159 dereferences it
         MutateResult(TRUE, NilResponse, {"mutate"}, "none")
    ELSE IF ar.Object.kind # "secret"
    THEN MutateResult(FALSE, ErrorResponse("could not unmarshal raw object"),
                      {"mutate", "Unmarshal"}, "none")
    ELSE IF ~mutationRequired(ignoredNamespaces, ar.Object.meta)
    THEN MutateResult(FALSE, SkipResponse,
                      {"mutate", "Unmarshal", "mutationRequired"}, "Skip")
    ELSE LET \* declared at line 153 and never assigned: the nil map
             availableAnnotations == NilMap
             annotations == MakeMap([k \in {syncAnnotationKey} |-> "true"])
             p == createPatch(availableAnnotations, annotations, order, patchMarshalErr)
             calls == {"mutate", "Unmarshal", "mutationRequired", "createPatch"}
         IN  IF p.err
             THEN MutateResult(FALSE, ErrorResponse("could not marshal patch"),
                               calls, "Mutate")
             ELSE MutateResult(FALSE, PatchResponse(p.bytes), calls, "Mutate")

(***************************************************************************)
(* The http.ResponseWriter: the status is fixed by the first WriteHeader,  *)
(* and Write calls WriteHeader(200) first when no header was written.      *)
(***************************************************************************)
NoReview == [hasResponse |-> FALSE, Response |-> NilResponse]
NewWriter == [wroteHeader |-> FALSE, status |-> 0, body |-> <<>>]
TextChunk(msg) == [kind |-> "text", text |-> msg, review |-> NoReview]
ReviewChunk(review) == [kind |-> "review", text |-> "", review |-> review]
EmptyChunk == [kind |-> "empty", text |-> "", review |-> NoReview]

WriteHeader(w, code) ==
    IF w.wroteHeader THEN w
    ELSE [w EXCEPT !.wroteHeader = TRUE, !.status = code]

\* w.Write(data): the header goes out first, then the write may fail; a
\* write of no bytes writes nothing and does not fail
Write(w, chunk, fail) ==
    LET w1 == WriteHeader(w, StatusOK)
    IN  IF chunk.kind = "empty" THEN [w |-> w1, err |-> FALSE]
        ELSE IF fail THEN [w |-> w1, err |-> TRUE]
        ELSE [w |-> [w1 EXCEPT !.body = Append(@, chunk)], err |-> FALSE]

\* http.Error: WriteHeader(code), then the message as the body
HttpError(w, msg, code, fail) == Write(WriteHeader(w, code), TextChunk(msg), fail).w

(***************************************************************************)
(* The request handler.                                                    *)
(***************************************************************************)
\* faulty variant: the content type is looked at before the body
TransportCheck_typeFirst(bodyKind, contentType) ==
    IF contentType # "application/json"
    THEN [reject |-> TRUE, code |-> StatusUnsupportedMediaType,
          msg |-> "invalid Content-Type"]
    ELSE IF bodyKind \in {"empty", "unreadable"}
    THEN [reject |-> TRUE, code |-> StatusBadRequest, msg |-> "empty body"]
    ELSE [reject |-> FALSE, code |-> StatusOK, msg |-> ""]

\* lines 202-220: body stays empty when the request has none or reading it
\* fails; then the content type is compared
TransportCheck(bodyKind, contentType) ==
    IF bodyKind \in {"empty", "unreadable"}
    THEN [reject |-> TRUE, code |-> StatusBadRequest, msg |-> "empty body"]
    ELSE IF contentType # "application/json"
    THEN [reject |-> TRUE, code |-> StatusUnsupportedMediaType,
          msg |-> "invalid Content-Type"]
    ELSE [reject |-> FALSE, code |-> StatusOK, msg |-> ""]

\* deserializer.Decode(body, nil, &ar): a body that is no JSON leaves ar
\* zero; a body that breaks off after its request field fails too, with the
\* field already stored; a review decodes
Decode(body) ==
    CASE body.kind = "garbage" -> [err |-> TRUE, ar |-> ZeroReview]
      [] body.kind = "truncated" -> [err |-> TRUE, ar |-> body.review]
      [] OTHER -> [err |-> FALSE, ar |-> body.review]

\* faulty variant: every path is routed to mutate
RouteMatches_any(path) == TRUE

RouteMatches(path) == path = "/mutate"

\* faulty variant: the response keeps its own (empty) UID
Correlate_noCopy(admissionResponse, ar) ==
    IF ~admissionResponse.isNil
    THEN [hasResponse |-> TRUE, Response |-> admissionResponse]
    ELSE NoReview

\* lines 238-244
Correlate(admissionResponse, ar) ==
    IF ~admissionResponse.isNil
    THEN [hasResponse |-> TRUE,
          Response |-> IF ar.hasRequest
                       THEN [admissionResponse EXCEPT !.UID = ar.UID]
                       ELSE admissionResponse]
    ELSE NoReview

\* the outcome of one call of serve
Outcome(state, writer, called, decided, review) ==
    [pc |-> state, w |-> writer, calls |-> called, decision |-> decided,
     review |-> review]

serve(r, e, order) ==
    LET t == TransportCheck(r.body.kind, r.contentType)
    IN  IF t.reject
        THEN Outcome("Responded", HttpError(NewWriter, t.msg, t.code, e.writeErr),
                     {}, "none", NoReview)
        ELSE
        LET d == Decode(r.body)
            m == IF d.err
                 THEN MutateResult(FALSE, ErrorResponse("could not decode body"), {}, "none")
                 ELSE IF RouteMatches(r.path)
                 THEN mutate(d.ar, order, e.patchMarshalErr)
                 ELSE MutateResult(FALSE, NilResponse, {}, "none")
        IN  IF m.panic
            THEN Outcome("Panicked", NewWriter, {"Decode"} \cup m.calls, m.decision,
                         NoReview)
            ELSE
            LET admissionReview == Correlate(m.resp, d.ar)
                w1 == IF e.encodeErr
                      THEN HttpError(NewWriter, "could not encode response",
                                     StatusInternalServerError, e.writeErr)
                      ELSE NewWriter
                resp == IF e.encodeErr THEN EmptyChunk ELSE ReviewChunk(admissionReview)
                wr == Write(w1, resp, e.writeErr)
                w2 == IF wr.err
                      THEN HttpError(wr.w, "could not write response",
                                     StatusInternalServerError, e.writeErr)
                      ELSE wr.w
            IN  Outcome("Responded", w2, {"Decode", "Marshal", "Write"} \cup m.calls,
                        m.decision, admissionReview)

(***************************************************************************)
(* The API server applies a returned patch to the submitted object         *)
(* (JSON Patch, RFC 6902: add on an existing member replaces its value;    *)
(* replace needs its target to exist; a path is a JSON pointer, RFC 6901). *)
(***************************************************************************)
\* the reference token of an annotation key: "/" is written "~1"
PointerToken(k) ==
    CASE k = syncAnnotationKey -> "kubed.appscode.com~1sync"
      [] k = originAnnotationKey -> "kubed.appscode.com~1origin"
      [] k = certManagerAnnotationKey -> "cert-manager.io~1certificate-name"
      [] OTHER -> k

ApplyOp(doc, op) ==
    IF ~doc.ok THEN doc
    ELSE IF op.Op = "add" /\ op.Path = AnnotationsPath /\ op.Value.t = "object"
    THEN [doc EXCEPT !.meta.Annotations = MakeMap(op.Value.obj)]
    ELSE IF op.Op = "replace" /\ op.Value.t = "string"
            /\ \E k \in AnnKeys : /\ HasKey(doc.meta.Annotations, k)
                                  /\ op.Path = AnnotationsPath \o "/" \o PointerToken(k)
    THEN LET k == CHOOSE k \in AnnKeys :
                     /\ HasKey(doc.meta.Annotations, k)
                     /\ op.Path = AnnotationsPath \o "/" \o PointerToken(k)
         IN  [doc EXCEPT !.meta.Annotations.kv[k] = op.Value.str]
    ELSE [doc EXCEPT !.ok = FALSE]

RECURSIVE ApplyPatch(_, _)
ApplyPatch(doc, ops) ==
    IF ops = <<>> THEN doc ELSE ApplyPatch(ApplyOp(doc, Head(ops)), Tail(ops))

(***************************************************************************)
(* Inputs.                                                                 *)
(***************************************************************************)
UIDs == {"", "uid-1", "uid-2"}
Objects == {NoObject, [kind |-> "malformed", meta |-> NoMeta]}
             \cup {[kind |-> "secret", meta |-> m] : m \in Metas}
Reviews == {ZeroReview} \cup [hasRequest : {TRUE}, UID : UIDs, Object : Objects]
PartialReviews == {ZeroReview} \cup [hasRequest : {TRUE}, UID : UIDs, Object : {NoObject}]
Bodies == [kind : {"empty", "unreadable", "garbage"}, review : {ZeroReview}]
            \cup [kind : {"truncated"}, review : PartialReviews]
            \cup [kind : {"review"}, review : Reviews]
ContentTypes == {"application/json", "text/plain", ""}
Paths == {"/mutate", "/validate"}
Requests == [body : Bodies, contentType : ContentTypes, path : Paths]
\* the failures the handler tests for: json.Marshal of the patch (line 181),
\* json.Marshal of the review (line 247), w.Write (line 252)
Envs == [patchMarshalErr : BOOLEAN, encodeErr : BOOLEAN, writeErr : BOOLEAN]

NoRequest == [body |-> [kind |-> "empty", review |-> ZeroReview],
              contentType |-> "", path |-> ""]
NoEnv == [patchMarshalErr |-> FALSE, encodeErr |-> FALSE, writeErr |-> FALSE]
NoDoc == [ok |-> TRUE, meta |-> NoMeta]

\* the builder's inputs
DesiredVals == {"true", "new"}
Desired ==
    {MakeMap(f) : f \in UNION {[S -> DesiredVals] : S \in KeySets(MaxDesired)}}

VARIABLES
    pc, req, env, w, calls, decision, admissionReview, stored,
    polMeta, polOut,
    bTarget, bAdded, bOrder, bPatch, bDone

hVars == <<pc, req, env, w, calls, decision, admissionReview, stored>>
polVars == <<polMeta, polOut>>
bVars == <<bTarget, bAdded, bOrder, bPatch, bDone>>
vars == <<hVars, polVars, bVars>>

HandlerIdle ==
    /\ pc = "Idle" /\ req = NoRequest /\ env = NoEnv /\ w = NewWriter
    /\ calls = {} /\ decision = "none" /\ admissionReview = NoReview
    /\ stored = NoDoc
PolicyIdle == polMeta = NoMeta /\ polOut = "none"
BuilderIdle ==
    /\ bTarget = NilMap /\ bAdded = NilMap /\ bOrder = <<>> /\ bPatch = <<>>
    /\ bDone = FALSE

(***************************************************************************)
(* Spec: the handler, one request at a time, and the API server applying   *)
(* the patch of an admitted review.                                        *)
(***************************************************************************)
Init == HandlerIdle /\ PolicyIdle /\ BuilderIdle

Serve ==
    /\ pc = "Idle"
    /\ \E r \in Requests, e \in Envs :
         \E order \in Orders(MakeMap([k \in {syncAnnotationKey} |-> "true"])) :
           LET o == serve(r, e, order)
           IN  /\ req' = r
               /\ env' = e
               /\ pc' = o.pc
               /\ w' = o.w
               /\ calls' = o.calls
               /\ decision' = o.decision
               /\ admissionReview' = o.review
    /\ UNCHANGED <<stored, polVars, bVars>>

\* the review the caller received, if the body holds one
Delivered == \E i \in DOMAIN w.body : w.body[i].kind = "review"
DeliveredReview == w.body[CHOOSE i \in DOMAIN w.body : w.body[i].kind = "review"].review

ApiServerApply ==
    /\ pc = "Responded"
    /\ w.status = StatusOK
    /\ Delivered
    /\ DeliveredReview.hasResponse
    /\ DeliveredReview.Response.Allowed
    /\ DeliveredReview.Response.Patch.t = "array"
    /\ stored' = ApplyPatch([ok |-> TRUE, meta |-> req.body.review.Object.meta],
                            DeliveredReview.Response.Patch.ops)
    /\ pc' = "Applied"
    /\ UNCHANGED <<req, env, w, calls, decision, admissionReview, polVars, bVars>>

\* the request is over; nothing of it is kept
Finish ==
    /\ pc \in {"Responded", "Panicked", "Applied"}
    /\ pc' = "Idle" /\ req' = NoRequest /\ env' = NoEnv /\ w' = NewWriter
    /\ calls' = {} /\ decision' = "none" /\ admissionReview' = NoReview
    /\ stored' = NoDoc
    /\ UNCHANGED <<polVars, bVars>>

Next == Serve \/ ApiServerApply \/ Finish
Spec == Init /\ [][Next]_vars

(***************************************************************************)
(* SpecPolicy: mutationRequired applied to every metadata of the bounds.   *)
(***************************************************************************)
InitPolicy ==
    /\ polMeta \in Metas
    /\ polOut = "none"
    /\ HandlerIdle /\ BuilderIdle

Decide ==
    /\ polOut = "none"
    /\ polOut' = IF mutationRequired(ignoredNamespaces, polMeta) THEN "Mutate" ELSE "Skip"
    /\ UNCHANGED <<polMeta, hVars, bVars>>

NextPolicy == Decide
SpecPolicy == InitPolicy /\ [][NextPolicy]_vars

(***************************************************************************)
(* SpecBuilder: updateAnnotation applied to every pair of maps of the      *)
(* bounds, in every order range may visit the desired keys.                *)
(***************************************************************************)
InitBuilder ==
    /\ bTarget \in Maps(MaxAnn)
    /\ bAdded \in Desired
    /\ bOrder = <<>> /\ bPatch = <<>> /\ bDone = FALSE
    /\ HandlerIdle /\ PolicyIdle

Build ==
    /\ ~bDone
    /\ \E order \in Orders(bAdded) :
         /\ bOrder' = order
         /\ bPatch' = updateAnnotation(bTarget, bAdded, order)
    /\ bDone' = TRUE
    /\ UNCHANGED <<bTarget, bAdded, hVars, polVars>>

NextBuilder == Build
SpecBuilder == InitBuilder /\ [][NextBuilder]_vars

(***************************************************************************)
(* Properties.                                                             *)
(***************************************************************************)
Served == pc \in {"Responded", "Applied"}
SubmittedReview == req.body.review
SubmittedMeta == req.body.review.Object.meta
KeysOf(m) == IF m.isNil THEN {} ELSE DOMAIN m.kv
PassesTransport ==
    /\ req.body.kind \notin {"empty", "unreadable"}
    /\ req.contentType = "application/json"

\* C1: mutationRequired with the ignored list {kube-system, kube-public}
\* answers Skip exactly when the namespace is in the list or the object
\* carries both the certificate-name marker and the origin marker, and
\* Mutate in every other case.
C1_DecisionTable ==
    polOut # "none" =>
        ( polOut = "Skip" <=>
            \/ polMeta.Namespace \in {"kube-system", "kube-public"}
            \/ {"cert-manager.io/certificate-name", "kubed.appscode.com/origin"}
                 \subseteq KeysOf(polMeta.Annotations) )

\* an exempt namespace with the certificate marker and no origin marker: Skip
C1_Witness ==
    /\ polOut = "Skip"
    /\ polMeta.Namespace = "kube-system"
    /\ "cert-manager.io/certificate-name" \in KeysOf(polMeta.Annotations)
    /\ "kubed.appscode.com/origin" \notin KeysOf(polMeta.Annotations)

\* C2 (as claimed): for a decoded Secret whose decision is Mutate the
\* response is allowed, tagged JSONPatch, and its patch is the one operation
\* chosen from the Secret's own annotations: an add of {sync: "true"} on
\* /metadata/annotations when the Secret has no non-empty sync annotation, a
\* replace of /metadata/annotations/<sync key> by "true" when it has one.
C2_PatchFromSecretAnnotations ==
    (Served /\ decision = "Mutate" /\ ~env.patchMarshalErr) =>
        LET r == admissionReview.Response
            sync == "kubed.appscode.com/sync"
            has == sync \in KeysOf(SubmittedMeta.Annotations)
                     /\ SubmittedMeta.Annotations.kv[sync] # ""
            expected ==
                IF has
                THEN [Op |-> "replace", Path |-> "/metadata/annotations/" \o sync,
                      Value |-> StringValue("true")]
                ELSE [Op |-> "add", Path |-> "/metadata/annotations",
                      Value |-> ObjectValue([k \in {sync} |-> "true"])]
        IN  /\ admissionReview.hasResponse
            /\ r.Allowed
            /\ r.PatchType = "JSONPatch"
            /\ r.Patch = JSONArray(<<expected>>)

\* C3 (as claimed): updateAnnotation emits one operation per desired key,
\* each chosen from the caller's existing map alone (add when the key is
\* missing or empty there, replace otherwise), whatever the visiting order.
C3_OperationsFromExistingAlone ==
    bDone =>
        /\ Len(bPatch) = Cardinality(KeysOf(bAdded))
        /\ \A i \in DOMAIN bPatch :
             LET key == bOrder[i]
                 value == bAdded.kv[key]
                 missing == key \notin KeysOf(bTarget) \/ bTarget.kv[key] = ""
             IN  bPatch[i] =
                   IF missing
                   THEN [Op |-> "add", Path |-> "/metadata/annotations",
                         Value |-> ObjectValue([k \in {key} |-> value])]
                   ELSE [Op |-> "replace", Path |-> "/metadata/annotations/" \o key,
                         Value |-> StringValue(value)]

\* C4: a reply envelope that holds a response and answers a decoded request
\* carries that request's UID, whichever branch built the response; a
\* response's UID is never anything but the request's UID or empty.
C4_UIDEchoed ==
    (Served /\ Delivered /\ DeliveredReview.hasResponse) =>
        /\ (req.body.kind = "review" /\ SubmittedReview.hasRequest)
             => DeliveredReview.Response.UID = SubmittedReview.UID
        /\ DeliveredReview.Response.UID \in {"", SubmittedReview.UID}

\* a patch response delivered for a request with a non-empty UID
C4_Witness ==
    /\ Served /\ Delivered /\ DeliveredReview.hasResponse
    /\ req.body.kind = "review" /\ SubmittedReview.UID = "uid-2"
    /\ DeliveredReview.Response.UID = "uid-2"
    /\ DeliveredReview.Response.Patch.t = "array"

\* C5: an empty or unreadable body gets 400 whatever the content type and
\* path; a non-empty body with a content type other than application/json
\* gets 415; in both cases nothing is decoded, neither the evaluator nor the
\* builder runs, and no review envelope is written.
C5_TransportChecksFirst ==
    pc # "Idle" =>
        /\ req.body.kind \in {"empty", "unreadable"} =>
             /\ pc = "Responded" /\ w.status = 400
             /\ calls = {} /\ ~Delivered
        /\ (req.body.kind \notin {"empty", "unreadable"}
              /\ req.contentType # "application/json") =>
             /\ pc = "Responded" /\ w.status = 415
             /\ calls = {} /\ ~Delivered

\* an empty body with a wrong content type, sent to /mutate: 400, not 415
C5_Witness ==
    /\ pc = "Responded" /\ req.body.kind = "empty"
    /\ req.contentType = "text/plain" /\ req.path = "/mutate"
    /\ w.status = 400

\* C6: in every response the handler produces, a patch is present only with
\* allowed=true after a Mutate decision, and then tagged JSONPatch; a status
\* message is present only after a failure (envelope decode, embedded object
\* decode, patch serialization), and then allowed is false and no patch is
\* present; such a response, once delivered, goes out with HTTP 200.
C6_ResponseShape ==
    (Served /\ admissionReview.hasResponse) =>
        LET r == admissionReview.Response
            envelopeError == req.body.kind \in {"garbage", "truncated"}
            objectError == /\ req.body.kind = "review" /\ req.path = "/mutate"
                           /\ SubmittedReview.Object.kind # "secret"
            patchError == decision = "Mutate" /\ env.patchMarshalErr
        IN  /\ r.Patch # NoBytes =>
                 r.Allowed /\ decision = "Mutate" /\ r.PatchType = "JSONPatch"
            /\ r.PatchType # "" => r.Patch # NoBytes
            /\ r.hasResult =>
                 /\ envelopeError \/ objectError \/ patchError
                 /\ ~r.Allowed
                 /\ r.Patch = NoBytes
            /\ (r.hasResult /\ Delivered) => w.status = 200

\* a delivered response that reports a malformed embedded object
C6_Witness ==
    /\ Served /\ Delivered /\ DeliveredReview.hasResponse
    /\ DeliveredReview.Response.hasResult
    /\ SubmittedReview.Object.kind = "malformed"
    /\ w.status = 200

\* C7 (as claimed): a request that reaches the Respond step is answered with
\* 500 if encoding the envelope fails or writing the reply fails, and with
\* 200 otherwise.
C7_ServerErrorOnEncodeOrWriteFailure ==
    (pc = "Responded" /\ "Marshal" \in calls) =>
        w.status = IF env.encodeErr \/ env.writeErr THEN 500 ELSE 200

\* C8: a request that passes the transport checks and decodes, sent to a
\* path other than /mutate: the embedded object is not decoded, neither the
\* evaluator nor the builder runs, and the reply envelope holds no response.
C8_OtherPathEmptyEnvelope ==
    (pc # "Idle" /\ PassesTransport /\ req.body.kind = "review"
       /\ req.path # "/mutate") =>
        /\ pc = "Responded"
        /\ calls \cap {"mutate", "Unmarshal", "mutationRequired", "createPatch"} = {}
        /\ decision = "none"
        /\ admissionReview = NoReview
        /\ (~env.encodeErr /\ ~env.writeErr) =>
             Delivered /\ ~DeliveredReview.hasResponse

\* a Secret of a namespace that is not exempt, sent to /validate
C8_Witness ==
    /\ pc = "Responded" /\ PassesTransport /\ req.body.kind = "review"
    /\ req.path = "/validate"
    /\ SubmittedReview.hasRequest /\ SubmittedReview.Object.kind = "secret"
    /\ SubmittedMeta.Namespace = "default"
    /\ Delivered /\ ~DeliveredReview.hasResponse

\* C9 (as claimed): for every input the handler ends in Responded; it never
\* aborts, also not for a decoded review without a request sent to /mutate.
C9_AlwaysResponded ==
    pc # "Idle" => Served

\* C10 (as claimed): applying the returned patch to the submitted Secret
\* yields the Secret's annotations with the sync annotation set to "true",
\* every other annotation kept, and every other field unchanged.
C10_OnlySyncAnnotationChanges ==
    pc = "Applied" =>
        LET sync == "kubed.appscode.com/sync"
            old == SubmittedMeta.Annotations
            keys == KeysOf(old) \cup {sync}
        IN  /\ stored.ok
            /\ stored.meta.Namespace = SubmittedMeta.Namespace
            /\ stored.meta.Labels = SubmittedMeta.Labels
            /\ stored.meta.Annotations =
                 MakeMap([k \in keys |-> IF k = sync THEN "true" ELSE old.kv[k]])
====
